---- MODULE Spec2Model ----
(***************************************************************************)
(* Codeforces Tag Stats (cf.js): submission classification, per-tag        *)
(* roll-up, difficulty buckets, tag intersection, snapshot build /         *)
(* rehydration and the snapshot cache driven by boot().                    *)
(*                                                                         *)
(* Conventions for JavaScript values:                                      *)
(*   - null / undefined numbers are Null (-1); a missing or zero           *)
(*     contestId / rating of an API record is 0 (both are falsy in JS);    *)
(*   - a Map or plain object is a function whose DOMAIN is its key set;    *)
(*   - a Set is a set; an array is a sequence;                             *)
(*   - floating point results (solvePercent, recommendScore) are kept in   *)
(*     fixed point, in units of 1 / ScoreScale.                            *)
(***************************************************************************)
EXTENDS Integers, Sequences, FiniteSets, TLC

VARIABLES
    problemset,        \* psData.result.problems: the catalog the API serves
    submissions,       \* subsData.result: the submission list the API serves
    foldIdx,           \* position of the `for (const sub of submissions)` loop
    perProblemOrigin,  \* Map key -> {contest, practice} while the loop runs
    perProblemStatus,  \* Map key -> {solved, failedContest, failedPractice}
    solvedProblems,    \* Set of solved keys
    storage,           \* localStorage under "cfTagStats:" + handle
    now,               \* Date.now(), in ms
    pc,                \* "load": init() not yet run; "fetching": boot awaits; "idle"
    inFlight,          \* number of boot() calls awaiting fetchAndBuildSnapshot
    block,             \* #cf-tag-stats-block: "none", "placeholder", "rendered", "failed"
    refreshEnabled,    \* the rendered block's Refresh button is clickable
    windowSnapshot,    \* window.__CF_SNAPSHOT__
    rendered,          \* the agg that renderFromSnapshot handed to injectSection
    lastBoot,          \* how the last boot ended and what its fetches and write did
    bootError,         \* a boot() promise was rejected
    scoreTags,         \* the tags array handed to computeRecommendationScores
    scoreDone          \* computeRecommendationScores has returned

scoreVars == <<scoreTags, scoreDone>>

foldVars == <<problemset, submissions, foldIdx, perProblemOrigin,
              perProblemStatus, solvedProblems, scoreTags, scoreDone>>

bootVars == <<storage, now, pc, inFlight, block, refreshEnabled, windowSnapshot, rendered,
              lastBoot, bootError>>

vars == <<problemset, submissions, foldIdx, perProblemOrigin, perProblemStatus,
          solvedProblems, storage, now, pc, inFlight, block, refreshEnabled, windowSnapshot,
          rendered, lastBoot, bootError, scoreTags, scoreDone>>

(***************************************************************************)
(* Bounds of the model.                                                    *)
(***************************************************************************)
MaxProblems == 2
MaxSubs == 2

Null == 0 - 1

BoundedSeq(S, n) == UNION {[1..m -> S] : m \in 0..n}

Put(f, k, v) == [x \in (DOMAIN f) \cup {k} |-> IF x = k THEN v ELSE f[x]]

EmptyMap == [x \in {} |-> 0]

\* TheOne({F(v) : v \in {e}}) is F(e), with e evaluated once and F applied to its
\* value: a `const v = e` of the source.
TheOne(S) == CHOOSE x \in S : TRUE

(***************************************************************************)
(* probKey (cf.js 419-423).  A key `${a}-${b}` is the pair <<a, b>>.       *)
(***************************************************************************)
probKey(p) ==
    IF p.contestId = 0 /\ p.problemsetName = ""
    THEN <<"PS", p.index>>
    ELSE <<IF p.contestId # 0 THEN ToString(p.contestId) ELSE p.problemsetName,
           p.index>>

(***************************************************************************)
(* The fold of aggregate() over the submissions (cf.js 246-278).           *)
(***************************************************************************)
\* Mutant of contestFailVerdicts: a submission still being judged counts as a
\* failure.
contestFailVerdictsAndPending ==
    {"WRONG_ANSWER", "TIME_LIMIT_EXCEEDED", "RUNTIME_ERROR", "MEMORY_LIMIT_EXCEEDED",
     "IDLENESS_LIMIT_EXCEEDED", "REJECTED", "FAILED", "PRESENTATION_ERROR",
     "CHALLENGED", "PARTIAL", "COMPILATION_ERROR", "CRASHED", "SKIPPED", "TESTING"}

contestFailVerdicts ==
    {"WRONG_ANSWER", "TIME_LIMIT_EXCEEDED", "RUNTIME_ERROR", "MEMORY_LIMIT_EXCEEDED",
     "IDLENESS_LIMIT_EXCEEDED", "REJECTED", "FAILED", "PRESENTATION_ERROR",
     "CHALLENGED", "PARTIAL", "COMPILATION_ERROR", "CRASHED", "SKIPPED"}

\* probIndex: the set of keys of the catalog (cf.js 234-244)
probIndexOf(ps) == {probKey(ps[i]) : i \in 1..Len(ps)}

NewOrigin == [contest |-> FALSE, practice |-> FALSE]
NewStatus == [solved |-> FALSE, failedContest |-> FALSE, failedPractice |-> FALSE]

EmptyClass == [origin |-> EmptyMap, status |-> EmptyMap, solved |-> {}]

\* Mutant of ClassifyStep: the `!status.solved` guard of line 273 is dropped.
ClassifyStepNoGuard(c, sub, probIndex) ==
    IF Len(sub.problem) = 0 THEN c
    ELSE LET key == probKey(sub.problem[1]) IN
         IF key \notin probIndex THEN c
         ELSE LET origin == IF key \in DOMAIN c.origin THEN c.origin[key] ELSE NewOrigin
                  status == IF key \in DOMAIN c.status THEN c.status[key] ELSE NewStatus
                  isContest == sub.contestId # 0
              IN  IF sub.verdict = "OK"
                  THEN [origin |-> Put(c.origin, key,
                                       IF isContest THEN [origin EXCEPT !.contest = TRUE]
                                                    ELSE [origin EXCEPT !.practice = TRUE]),
                        status |-> Put(c.status, key, [status EXCEPT !.solved = TRUE]),
                        solved |-> c.solved \cup {key}]
                  ELSE IF sub.verdict \in contestFailVerdicts
                  THEN [origin |-> Put(c.origin, key, origin),
                        status |-> Put(c.status, key,
                                       IF isContest THEN [status EXCEPT !.failedContest = TRUE]
                                                    ELSE [status EXCEPT !.failedPractice = TRUE]),
                        solved |-> c.solved]
                  ELSE [origin |-> Put(c.origin, key, origin),
                        status |-> Put(c.status, key, status),
                        solved |-> c.solved]

\* Mutant of ClassifyStep: the `!probIndex.has(key)` test of line 258 is dropped.
ClassifyStepNoIndexCheck(c, sub, probIndex) ==
    IF Len(sub.problem) = 0 THEN c
    ELSE LET key == probKey(sub.problem[1])
             origin == IF key \in DOMAIN c.origin THEN c.origin[key] ELSE NewOrigin
             status == IF key \in DOMAIN c.status THEN c.status[key] ELSE NewStatus
             isContest == sub.contestId # 0
         IN  IF sub.verdict = "OK"
             THEN [origin |-> Put(c.origin, key,
                                  IF isContest THEN [origin EXCEPT !.contest = TRUE]
                                               ELSE [origin EXCEPT !.practice = TRUE]),
                   status |-> Put(c.status, key, [status EXCEPT !.solved = TRUE]),
                   solved |-> c.solved \cup {key}]
             ELSE IF ~status.solved /\ sub.verdict \in contestFailVerdicts
             THEN [origin |-> Put(c.origin, key, origin),
                   status |-> Put(c.status, key,
                                  IF isContest THEN [status EXCEPT !.failedContest = TRUE]
                                               ELSE [status EXCEPT !.failedPractice = TRUE]),
                   solved |-> c.solved]
             ELSE [origin |-> Put(c.origin, key, origin),
                   status |-> Put(c.status, key, status),
                   solved |-> c.solved]

\* Mutant of ClassifyStep: only the first accepted submission records its origin.
ClassifyStepFirstOrigin(c, sub, probIndex) ==
    IF Len(sub.problem) = 0 THEN c
    ELSE LET key == probKey(sub.problem[1]) IN
         IF key \notin probIndex THEN c
         ELSE LET origin == IF key \in DOMAIN c.origin THEN c.origin[key] ELSE NewOrigin
                  status == IF key \in DOMAIN c.status THEN c.status[key] ELSE NewStatus
                  isContest == sub.contestId # 0
              IN  IF sub.verdict = "OK"
                  THEN [origin |-> Put(c.origin, key,
                                       IF status.solved THEN origin
                                       ELSE IF isContest THEN [origin EXCEPT !.contest = TRUE]
                                                         ELSE [origin EXCEPT !.practice = TRUE]),
                        status |-> Put(c.status, key, [status EXCEPT !.solved = TRUE]),
                        solved |-> c.solved \cup {key}]
                  ELSE IF ~status.solved /\ sub.verdict \in contestFailVerdicts
                  THEN [origin |-> Put(c.origin, key, origin),
                        status |-> Put(c.status, key,
                                       IF isContest THEN [status EXCEPT !.failedContest = TRUE]
                                                    ELSE [status EXCEPT !.failedPractice = TRUE]),
                        solved |-> c.solved]
                  ELSE [origin |-> Put(c.origin, key, origin),
                        status |-> Put(c.status, key, status),
                        solved |-> c.solved]

\* One iteration of the loop (cf.js 255-278) on the classification c.
ClassifyStep(c, sub, probIndex) ==
    IF Len(sub.problem) = 0 THEN c                              \* if (!pr) continue
    ELSE LET key == probKey(sub.problem[1]) IN
         IF key \notin probIndex THEN c                         \* not in the catalog
         ELSE LET origin == IF key \in DOMAIN c.origin THEN c.origin[key] ELSE NewOrigin
                  status == IF key \in DOMAIN c.status THEN c.status[key] ELSE NewStatus
                  isContest == sub.contestId # 0
              IN  IF sub.verdict = "OK"
                  THEN [origin |-> Put(c.origin, key,
                                       IF isContest THEN [origin EXCEPT !.contest = TRUE]
                                                    ELSE [origin EXCEPT !.practice = TRUE]),
                        status |-> Put(c.status, key, [status EXCEPT !.solved = TRUE]),
                        solved |-> c.solved \cup {key}]
                  ELSE IF ~status.solved /\ sub.verdict \in contestFailVerdicts
                  THEN [origin |-> Put(c.origin, key, origin),
                        status |-> Put(c.status, key,
                                       IF isContest THEN [status EXCEPT !.failedContest = TRUE]
                                                    ELSE [status EXCEPT !.failedPractice = TRUE]),
                        solved |-> c.solved]
                  ELSE [origin |-> Put(c.origin, key, origin),
                        status |-> Put(c.status, key, status),
                        solved |-> c.solved]

\* The whole loop: the classification after the first n submissions of subs.
RECURSIVE ClassifyPrefix(_, _, _)
ClassifyPrefix(subs, n, probIndex) ==
    IF n = 0 THEN EmptyClass
    ELSE TheOne({ClassifyStep(c, subs[n], probIndex) :
                    c \in {ClassifyPrefix(subs, n - 1, probIndex)}})

Classify(subs, probIndex) == ClassifyPrefix(subs, Len(subs), probIndex)

(***************************************************************************)
(* aggregate(): the catalog index and the per-tag roll-up (cf.js 233-358). *)
(* A JS Set that is later spread into an array (perTagProblemList) is a    *)
(* duplicate-free sequence in insertion order.                             *)
(***************************************************************************)
Range(q) == {q[i] : i \in 1..Len(q)}

SetAdd(q, x) == IF x \in Range(q) THEN q ELSE Append(q, x)

\* Map.get(k) with optional chaining: a missing entry reads as all-false.
OriginOf(origin, k) == IF k \in DOMAIN origin THEN origin[k] ELSE NewOrigin
StatusOf(status, k) == IF k \in DOMAIN status THEN status[k] ELSE NewStatus

\* Keys of perProblemMeta in Map order (first insertion), cf.js 236-244.
RECURSIVE KeyOrder(_, _)
KeyOrder(ps, n) ==
    IF n = 0 THEN <<>>
    ELSE TheOne({SetAdd(q, probKey(ps[n])) : q \in {KeyOrder(ps, n - 1)}})

\* perProblemMeta: a later catalog entry with the same key overwrites (Map.set).
MetaOf(ps) ==
    [k \in probIndexOf(ps) |->
        LET last == CHOOSE i \in 1..Len(ps) :
                        /\ probKey(ps[i]) = k
                        /\ \A j \in 1..Len(ps) : probKey(ps[j]) = k => j <= i
        IN  [tags |-> ps[last].tags,                                    \* p.tags || []
             rating |-> IF ps[last].rating = 0 THEN Null ELSE ps[last].rating]]  \* p.rating || null

\* ensure(tag), cf.js 284-305
NewStat(tag) ==
    [tag |-> tag, solved |-> 0, solvedContest |-> 0, solvedPractice |-> 0,
     totalAvailable |-> 0, maxSolved |-> Null, solvePercent |-> 0,
     nextTargetDifficulty |-> Null, solvedDiffs |-> {}, recommendScore |-> 0,
     minFailedDifficulty |-> Null, maxFailedDifficulty |-> Null, failSpan |-> Null]

EmptyRollup ==
    [tagStats |-> EmptyMap, tagOrder |-> <<>>, perTagProblemList |-> EmptyMap,
     tagRatingsAll |-> EmptyMap]

\* Mutant of RollupPair: the origin split prefers practice over contest.
RollupPairPracticeFirst(acc, key, t, rating, isSolved, origin) ==
    LET stat0 == IF t \in DOMAIN acc.tagStats THEN acc.tagStats[t] ELSE NewStat(t)
        stat1 == [stat0 EXCEPT !.totalAvailable = @ + 1]
        stat2 == IF ~isSolved THEN stat1
                 ELSE [stat1 EXCEPT
                        !.solved = @ + 1,
                        !.solvedContest = IF ~origin.practice /\ origin.contest THEN @ + 1 ELSE @,
                        !.solvedPractice = IF origin.practice THEN @ + 1 ELSE @,
                        !.solvedDiffs = IF rating # Null THEN @ \cup {rating} ELSE @,
                        !.maxSolved = IF rating # Null /\ (@ = Null \/ rating > @)
                                      THEN rating ELSE @]
    IN  [tagStats |-> Put(acc.tagStats, t, stat2),
         tagOrder |-> SetAdd(acc.tagOrder, t),
         perTagProblemList |->
            Put(acc.perTagProblemList, t,
                SetAdd(IF t \in DOMAIN acc.perTagProblemList
                       THEN acc.perTagProblemList[t] ELSE <<>>, key)),
         tagRatingsAll |->
            IF rating # Null
            THEN Put(acc.tagRatingsAll, t,
                     (IF t \in DOMAIN acc.tagRatingsAll THEN acc.tagRatingsAll[t] ELSE {})
                        \cup {rating})
            ELSE acc.tagRatingsAll]

\* Mutant of RollupPair: the two origin flags are tested independently.
RollupPairBothOrigins(acc, key, t, rating, isSolved, origin) ==
    LET stat0 == IF t \in DOMAIN acc.tagStats THEN acc.tagStats[t] ELSE NewStat(t)
        stat1 == [stat0 EXCEPT !.totalAvailable = @ + 1]
        stat2 == IF ~isSolved THEN stat1
                 ELSE [stat1 EXCEPT
                        !.solved = @ + 1,
                        !.solvedContest = IF origin.contest THEN @ + 1 ELSE @,
                        !.solvedPractice = IF origin.practice THEN @ + 1 ELSE @,
                        !.solvedDiffs = IF rating # Null THEN @ \cup {rating} ELSE @,
                        !.maxSolved = IF rating # Null /\ (@ = Null \/ rating > @)
                                      THEN rating ELSE @]
    IN  [tagStats |-> Put(acc.tagStats, t, stat2),
         tagOrder |-> SetAdd(acc.tagOrder, t),
         perTagProblemList |->
            Put(acc.perTagProblemList, t,
                SetAdd(IF t \in DOMAIN acc.perTagProblemList
                       THEN acc.perTagProblemList[t] ELSE <<>>, key)),
         tagRatingsAll |->
            IF rating # Null
            THEN Put(acc.tagRatingsAll, t,
                     (IF t \in DOMAIN acc.tagRatingsAll THEN acc.tagRatingsAll[t] ELSE {})
                        \cup {rating})
            ELSE acc.tagRatingsAll]

\* Body of `for (const t of tags)` for one listed tag t of problem key (cf.js 313-331).
RollupPair(acc, key, t, rating, isSolved, origin) ==
    LET stat0 == IF t \in DOMAIN acc.tagStats THEN acc.tagStats[t] ELSE NewStat(t)
        stat1 == [stat0 EXCEPT !.totalAvailable = @ + 1]
        stat2 == IF ~isSolved THEN stat1
                 ELSE [stat1 EXCEPT
                        !.solved = @ + 1,
                        !.solvedContest = IF origin.contest THEN @ + 1 ELSE @,
                        !.solvedPractice = IF ~origin.contest /\ origin.practice THEN @ + 1 ELSE @,
                        !.solvedDiffs = IF rating # Null THEN @ \cup {rating} ELSE @,
                        !.maxSolved = IF rating # Null /\ (@ = Null \/ rating > @)
                                      THEN rating ELSE @]
    IN  [tagStats |-> Put(acc.tagStats, t, stat2),
         tagOrder |-> SetAdd(acc.tagOrder, t),
         perTagProblemList |->
            Put(acc.perTagProblemList, t,
                SetAdd(IF t \in DOMAIN acc.perTagProblemList
                       THEN acc.perTagProblemList[t] ELSE <<>>, key)),
         tagRatingsAll |->
            IF rating # Null
            THEN Put(acc.tagRatingsAll, t,
                     (IF t \in DOMAIN acc.tagRatingsAll THEN acc.tagRatingsAll[t] ELSE {})
                        \cup {rating})
            ELSE acc.tagRatingsAll]

\* The first n listed tags of problem key (cf.js 313).
RECURSIVE RollupTags(_, _, _, _, _)
RollupTags(acc, key, meta, cls, n) ==
    IF n = 0 THEN acc
    ELSE TheOne({RollupPair(prev, key, meta.tags[n], meta.rating,
                            StatusOf(cls.status, key).solved, OriginOf(cls.origin, key)) :
                    prev \in {RollupTags(acc, key, meta, cls, n - 1)}})

\* The first m problems of perProblemMeta (cf.js 307).
RECURSIVE RollupKeys(_, _, _, _)
RollupKeys(order, metas, cls, m) ==
    IF m = 0 THEN EmptyRollup
    ELSE TheOne({RollupTags(prev, order[m], metas[order[m]], cls,
                            Len(metas[order[m]].tags)) :
                    prev \in {RollupKeys(order, metas, cls, m - 1)}})

ScoreScale == 1000 * 1000

MinOf(S) == CHOOSE x \in S : \A y \in S : x <= y
MaxOf(S) == CHOOSE x \in S : \A y \in S : x >= y

\* Mutant of PostPass: the next target may equal maxSolved.
PostPassNotStrict(stat, tagRatingsAll) ==
    [stat EXCEPT
        !.solvePercent = IF stat.totalAvailable # 0
                         THEN (stat.solved * ScoreScale) \div stat.totalAvailable ELSE 0,
        !.nextTargetDifficulty =
            IF stat.maxSolved # Null /\ stat.tag \in DOMAIN tagRatingsAll
                 /\ \E r \in tagRatingsAll[stat.tag] : r >= stat.maxSolved
            THEN MinOf({r \in tagRatingsAll[stat.tag] : r >= stat.maxSolved})
            ELSE stat.nextTargetDifficulty]

\* Post-pass per tag (cf.js 334-345).
PostPass(stat, tagRatingsAll) ==
    [stat EXCEPT
        !.solvePercent = IF stat.totalAvailable # 0
                         THEN (stat.solved * ScoreScale) \div stat.totalAvailable ELSE 0,
        !.nextTargetDifficulty =
            IF stat.maxSolved # Null /\ stat.tag \in DOMAIN tagRatingsAll
                 /\ \E r \in tagRatingsAll[stat.tag] : r > stat.maxSolved
            THEN MinOf({r \in tagRatingsAll[stat.tag] : r > stat.maxSolved})
            ELSE stat.nextTargetDifficulty]

\* [...].sort((a,b) => b.solved - a.solved): stable, by solved descending.
RECURSIVE InsertBySolved(_, _)
InsertBySolved(sorted, stat) ==
    IF sorted = <<>> THEN <<stat>>
    ELSE IF sorted[Len(sorted)].solved >= stat.solved THEN Append(sorted, stat)
    ELSE TheOne({Append(InsertBySolved(init, stat), sorted[Len(sorted)]) :
                    init \in {SubSeq(sorted, 1, Len(sorted) - 1)}})

RECURSIVE SortBySolved(_, _)
SortBySolved(stats, n) ==
    IF n = 0 THEN <<>>
    ELSE TheOne({InsertBySolved(sorted, stats[n]) : sorted \in {SortBySolved(stats, n - 1)}})

\* cf.js 307-358, from the classification and the catalog index.
AggregateResult(cls, metas, order, roll) ==
    TheOne({[tagArray |-> SortBySolved(stats, Len(stats)),
             perTagProblemList |-> roll.perTagProblemList,
             perProblemMeta |-> metas,
             metaOrder |-> order,
             solvedProblems |-> cls.solved,
             perProblemOrigin |-> cls.origin,
             tagRatingsAll |-> roll.tagRatingsAll,
             perProblemStatus |-> cls.status] :
            stats \in {[i \in 1..Len(roll.tagOrder) |->
                          PostPass(roll.tagStats[roll.tagOrder[i]], roll.tagRatingsAll)]}})

AggregateFrom(cls, metas, order) ==
    TheOne({AggregateResult(cls, metas, order, roll) :
               roll \in {RollupKeys(order, metas, cls, Len(order))}})

aggregate(subs, ps) ==
    TheOne({AggregateFrom(cls, metas, order) :
               cls \in {Classify(subs, probIndexOf(ps))},
               metas \in {MetaOf(ps)},
               order \in {KeyOrder(ps, Len(ps))}})

(***************************************************************************)
(* computeRecommendationScores (cf.js 426-443), in fixed point.            *)
(* The three weights are in hundredths (0.55, 0.30, 0.15).                 *)
(***************************************************************************)
RECOMMEND_WEIGHT_COVERAGE_GAP == 55
RECOMMEND_WEIGHT_NEXT_DIFF == 30
RECOMMEND_WEIGHT_SOLVED == 15

OrZero(x) == IF x = Null THEN 0 ELSE x      \* x || 0 for a number or null

\* Mutant of ScoreOf: a tag without a next target is scored with a gap of 0.
ScoreOfNoDefaultGap(t, maxSolved, maxMaxDiff) ==
    LET coverageGap == ScoreScale - t.solvePercent
        diffDelta   == IF t.nextTargetDifficulty # Null
                       THEN t.nextTargetDifficulty - OrZero(t.maxSolved)
                       ELSE 0
        normNext    == (300 * ScoreScale) \div (300 + diffDelta)
        normSolved  == (t.solved * ScoreScale) \div maxSolved
        normMax     == (OrZero(t.maxSolved) * ScoreScale) \div maxMaxDiff
    IN  (2 * RECOMMEND_WEIGHT_COVERAGE_GAP * coverageGap
           + 2 * RECOMMEND_WEIGHT_NEXT_DIFF * normNext
           + RECOMMEND_WEIGHT_SOLVED * (normSolved + normMax)) \div 200

ScoreOf(t, maxSolved, maxMaxDiff) ==
    LET coverageGap == ScoreScale - t.solvePercent
        diffDelta   == IF t.nextTargetDifficulty # Null
                       THEN t.nextTargetDifficulty - OrZero(t.maxSolved)
                       ELSE 500
        \* 1 / (1 + diffDelta / 300)
        normNext    == (300 * ScoreScale) \div (300 + diffDelta)
        normSolved  == (t.solved * ScoreScale) \div maxSolved
        normMax     == (OrZero(t.maxSolved) * ScoreScale) \div maxMaxDiff
    IN  (2 * RECOMMEND_WEIGHT_COVERAGE_GAP * coverageGap
           + 2 * RECOMMEND_WEIGHT_NEXT_DIFF * normNext
           + RECOMMEND_WEIGHT_SOLVED * (normSolved + normMax)) \div 200

computeRecommendationScores(tags) ==
    IF Len(tags) = 0 THEN tags
    ELSE LET maxSolved  == MaxOf({tags[i].solved : i \in 1..Len(tags)} \cup {1})
             maxMaxDiff == MaxOf({OrZero(tags[i].maxSolved) : i \in 1..Len(tags)} \cup {1})
         IN  [i \in 1..Len(tags) |->
                [tags[i] EXCEPT !.recommendScore = ScoreOf(tags[i], maxSolved, maxMaxDiff)]]

(***************************************************************************)
(* computeFailedDifficultyBand (cf.js 360-379).                            *)
(***************************************************************************)
\* Mutant of FailBandOf: a practice failure counts like a contest failure.
FailBandOfAnyFailure(stat, agg) ==
    IF stat.tag \notin DOMAIN agg.perTagProblemList THEN stat
    ELSE LET fails == {agg.perProblemMeta[k].rating :
                          k \in {x \in Range(agg.perTagProblemList[stat.tag]) :
                                   /\ x \in DOMAIN agg.perProblemMeta
                                   /\ x \in DOMAIN agg.perProblemStatus
                                   /\ ~agg.perProblemStatus[x].solved
                                   /\ (agg.perProblemStatus[x].failedContest
                                         \/ agg.perProblemStatus[x].failedPractice)
                                   /\ agg.perProblemMeta[x].rating # Null}}
             minFail == IF fails = {} THEN Null ELSE MinOf(fails)
             maxFail == IF fails = {} THEN Null ELSE MaxOf(fails)
         IN  [stat EXCEPT !.minFailedDifficulty = minFail,
                          !.maxFailedDifficulty = maxFail,
                          !.failSpan = IF minFail # Null /\ maxFail # Null
                                       THEN maxFail - minFail ELSE Null]

\* Per tag (cf.js 363-378).
FailBandOf(stat, agg) ==
    IF stat.tag \notin DOMAIN agg.perTagProblemList THEN stat
    ELSE LET fails == {agg.perProblemMeta[k].rating :
                          k \in {x \in Range(agg.perTagProblemList[stat.tag]) :
                                   /\ x \in DOMAIN agg.perProblemMeta
                                   /\ x \in DOMAIN agg.perProblemStatus
                                   /\ ~agg.perProblemStatus[x].solved
                                   /\ agg.perProblemStatus[x].failedContest
                                   /\ agg.perProblemMeta[x].rating # Null}}
             minFail == IF fails = {} THEN Null ELSE MinOf(fails)
             maxFail == IF fails = {} THEN Null ELSE MaxOf(fails)
         IN  [stat EXCEPT !.minFailedDifficulty = minFail,
                          !.maxFailedDifficulty = maxFail,
                          !.failSpan = IF minFail # Null /\ maxFail # Null
                                       THEN maxFail - minFail ELSE Null]

computeFailedDifficultyBand(agg) ==
    [agg EXCEPT !.tagArray = [i \in 1..Len(agg.tagArray) |-> FailBandOf(agg.tagArray[i], agg)]]

(***************************************************************************)
(* buildAllTagDifficultyBuckets (cf.js 381-417).                           *)
(***************************************************************************)
NewBucket ==
    [solvedContest |-> 0, solvedPractice |-> 0, failedContest |-> 0, unsolved |-> 0,
     total |-> 0]

\* Mutant of TagBucketStep: the failedContest flag is tested before solved.
TagBucketStepFailFirst(diffMap, key, agg) ==
    IF key \notin DOMAIN agg.perProblemMeta THEN diffMap
    ELSE LET rating == OrZero(agg.perProblemMeta[key].rating)
             b      == IF rating \in DOMAIN diffMap THEN diffMap[rating] ELSE NewBucket
             status == StatusOf(agg.perProblemStatus, key)
             origin == OriginOf(agg.perProblemOrigin, key)
             b1     == [b EXCEPT !.total = @ + 1]
         IN  Put(diffMap, rating,
                 IF status.failedContest THEN [b1 EXCEPT !.failedContest = @ + 1]
                 ELSE IF status.solved
                 THEN IF origin.contest THEN [b1 EXCEPT !.solvedContest = @ + 1]
                                        ELSE [b1 EXCEPT !.solvedPractice = @ + 1]
                 ELSE [b1 EXCEPT !.unsolved = @ + 1])

\* Body of `for (const key of set)` (cf.js 396-413).
TagBucketStep(diffMap, key, agg) ==
    IF key \notin DOMAIN agg.perProblemMeta THEN diffMap            \* if (!meta) continue
    ELSE LET rating == OrZero(agg.perProblemMeta[key].rating)       \* meta.rating || 0
             b      == IF rating \in DOMAIN diffMap THEN diffMap[rating] ELSE NewBucket
             status == StatusOf(agg.perProblemStatus, key)
             origin == OriginOf(agg.perProblemOrigin, key)
             b1     == [b EXCEPT !.total = @ + 1]
         IN  Put(diffMap, rating,
                 IF status.solved
                 THEN IF origin.contest THEN [b1 EXCEPT !.solvedContest = @ + 1]
                                        ELSE [b1 EXCEPT !.solvedPractice = @ + 1]
                 ELSE IF status.failedContest THEN [b1 EXCEPT !.failedContest = @ + 1]
                                              ELSE [b1 EXCEPT !.unsolved = @ + 1])

RECURSIVE TagBuckets(_, _, _)
TagBuckets(keys, n, agg) ==
    IF n = 0 THEN EmptyMap
    ELSE TheOne({TagBucketStep(diffMap, keys[n], agg) : diffMap \in {TagBuckets(keys, n - 1, agg)}})

buildAllTagDifficultyBuckets(agg) ==
    LET tagsIn == {agg.tagArray[i].tag : i \in 1..Len(agg.tagArray)}
                     \cap DOMAIN agg.perTagProblemList              \* if (!set) continue
    IN  [t \in tagsIn |->
            TagBuckets(agg.perTagProblemList[t], Len(agg.perTagProblemList[t]), agg)]

(***************************************************************************)
(* buildIntersectionBuckets (cf.js 963-994).                               *)
(***************************************************************************)
KeepIn(q, S) == SelectSeq(q, LAMBDA x : x \in S)

\* Mutant of InterStep: a tag without an entry in the index is skipped.
InterStepSkipUnknown(prev, t, perTagProblemList) ==
    IF prev.done THEN prev
    ELSE IF t \notin DOMAIN perTagProblemList THEN prev
    ELSE LET set   == perTagProblemList[t]
             inter == IF prev.isNull THEN set ELSE KeepIn(prev.inter, Range(set))
         IN  [inter |-> inter, isNull |-> FALSE, done |-> Len(inter) = 0]

\* One iteration of `for (const t of tags)` (cf.js 966-972); done = a break was hit.
InterStep(prev, t, perTagProblemList) ==
    IF prev.done THEN prev
    ELSE IF t \notin DOMAIN perTagProblemList
    THEN [inter |-> <<>>, isNull |-> FALSE, done |-> TRUE]            \* unknown tag: break
    ELSE LET set   == perTagProblemList[t]
             inter == IF prev.isNull THEN set ELSE KeepIn(prev.inter, Range(set))
         IN  [inter |-> inter, isNull |-> FALSE, done |-> Len(inter) = 0]

\* The running intersection after the first n tags.
RECURSIVE InterPrefix(_, _, _)
InterPrefix(tags, n, perTagProblemList) ==
    IF n = 0 THEN [inter |-> <<>>, isNull |-> TRUE, done |-> FALSE]
    ELSE TheOne({InterStep(prev, tags[n], perTagProblemList) :
                    prev \in {InterPrefix(tags, n - 1, perTagProblemList)}})

\* Mutant of InterBucketStep: an intersection problem is put in bucket 0 whatever
\* its rating.
InterBucketStepUnrated(diffMap, key, agg) ==
    IF key \notin DOMAIN agg.perProblemMeta THEN diffMap
    ELSE LET rating == 0
             b      == IF rating \in DOMAIN diffMap THEN diffMap[rating] ELSE NewBucket
             status == StatusOf(agg.perProblemStatus, key)
             origin == OriginOf(agg.perProblemOrigin, key)
             b1     == [b EXCEPT !.total = @ + 1]
         IN  Put(diffMap, rating,
                 IF status.solved
                 THEN IF origin.contest THEN [b1 EXCEPT !.solvedContest = @ + 1]
                                        ELSE [b1 EXCEPT !.solvedPractice = @ + 1]
                 ELSE IF status.failedContest THEN [b1 EXCEPT !.failedContest = @ + 1]
                                              ELSE [b1 EXCEPT !.unsolved = @ + 1])

\* Body of `for (const key of inter)` (cf.js 975-992).
InterBucketStep(diffMap, key, agg) ==
    IF key \notin DOMAIN agg.perProblemMeta THEN diffMap
    ELSE LET rating == OrZero(agg.perProblemMeta[key].rating)
             b      == IF rating \in DOMAIN diffMap THEN diffMap[rating] ELSE NewBucket
             status == StatusOf(agg.perProblemStatus, key)
             origin == OriginOf(agg.perProblemOrigin, key)
             b1     == [b EXCEPT !.total = @ + 1]
         IN  Put(diffMap, rating,
                 IF status.solved
                 THEN IF origin.contest THEN [b1 EXCEPT !.solvedContest = @ + 1]
                                        ELSE [b1 EXCEPT !.solvedPractice = @ + 1]
                 ELSE IF status.failedContest THEN [b1 EXCEPT !.failedContest = @ + 1]
                                              ELSE [b1 EXCEPT !.unsolved = @ + 1])

RECURSIVE InterBuckets(_, _, _)
InterBuckets(keys, n, agg) ==
    IF n = 0 THEN EmptyMap
    ELSE TheOne({InterBucketStep(diffMap, keys[n], agg) :
                    diffMap \in {InterBuckets(keys, n - 1, agg)}})

buildIntersectionBuckets(tags, agg) ==
    TheOne({IF r.isNull \/ Len(r.inter) = 0 THEN EmptyMap
            ELSE InterBuckets(r.inter, Len(r.inter), agg) :
               r \in {InterPrefix(tags, Len(tags), agg.perTagProblemList)}})

(***************************************************************************)
(* Snapshots: buildSnapshot (cf.js 163-230), the tagProblemKeys added by   *)
(* fetchAndBuildSnapshot (150-154), renderFromSnapshot's reconstruction    *)
(* (446-495) and rebuildDiffMapFromSnapshot (1009-1021).                   *)
(* Object keys are strings: a bucket's rating is stored as its decimal     *)
(* numeral and parsed back.  An object's key order is kept beside it       *)
(* (tagOrder, problemOrder).                                               *)
(***************************************************************************)
CACHE_TTL_HOURS == 6
SNAPSHOT_SCHEMA_VERSION == 2

\* The numbers whose numerals occur as bucket keys.
RatingValues == {0, 800, 1500}

\* parseInt(s, 10) on a numeral of RatingValues
ParseInt(s) == CHOOSE r \in RatingValues : ToString(r) = s

\* Mutant of SnapshotProblem: the origin flags are reduced to the contest-first split.
SnapshotProblemSplitOrigin(meta, status, origin) ==
    [rating |-> meta.rating,
     tags |-> meta.tags,
     solved |-> status.solved,
     contest |-> origin.contest /\ status.solved,
     practice |-> origin.practice /\ ~origin.contest /\ status.solved,
     failedContest |-> status.failedContest /\ ~status.solved,
     failedPractice |-> status.failedPractice /\ ~status.solved]

\* problems[key] (cf.js 177-186)
SnapshotProblem(meta, status, origin) ==
    [rating |-> meta.rating,
     tags |-> meta.tags,
     solved |-> status.solved,
     contest |-> origin.contest /\ status.solved,
     practice |-> origin.practice /\ status.solved,
     failedContest |-> status.failedContest /\ ~status.solved,
     failedPractice |-> status.failedPractice /\ ~status.solved]

\* bucketObj (cf.js 192-201): a Map rating -> bucket becomes an object numeral -> bucket
BucketObj(diffMap) ==
    [s \in {ToString(r) : r \in DOMAIN diffMap} |->
        diffMap[CHOOSE r \in DOMAIN diffMap : ToString(r) = s]]

\* tagsObj[stat.tag] (cf.js 202-215)
SnapshotTag(stat, tagDifficultyBuckets) ==
    [totalAvailable |-> stat.totalAvailable,
     solved |-> stat.solved,
     solvedContest |-> stat.solvedContest,
     solvedPractice |-> stat.solvedPractice,
     solvePercent |-> stat.solvePercent,
     maxSolved |-> stat.maxSolved,
     nextTargetDifficulty |-> stat.nextTargetDifficulty,       \* ?? null
     minFailedDifficulty |-> stat.minFailedDifficulty,
     maxFailedDifficulty |-> stat.maxFailedDifficulty,
     failSpan |-> stat.failSpan,
     recommendScore |-> stat.recommendScore,
     difficultyBuckets |->
        BucketObj(IF stat.tag \in DOMAIN tagDifficultyBuckets
                  THEN tagDifficultyBuckets[stat.tag] ELSE EmptyMap)]

\* generatedAt is the time in ms that toISOString() writes and Date parses back.
buildSnapshot(handle, subs, ps, agg, tagDifficultyBuckets, time) ==
    [schemaVersion |-> SNAPSHOT_SCHEMA_VERSION,
     generatedAt |-> time,
     handle |-> handle,
     source |-> [userStatusCount |-> Len(subs), problemsetCount |-> Len(ps)],
     problems |-> [k \in DOMAIN agg.perProblemMeta |->
                     SnapshotProblem(agg.perProblemMeta[k],
                                     StatusOf(agg.perProblemStatus, k),
                                     OriginOf(agg.perProblemOrigin, k))],
     problemOrder |-> agg.metaOrder,
     tags |-> [t \in {agg.tagArray[i].tag : i \in 1..Len(agg.tagArray)} |->
                 SnapshotTag(agg.tagArray[CHOOSE i \in 1..Len(agg.tagArray) :
                                              agg.tagArray[i].tag = t],
                             tagDifficultyBuckets)],
     tagOrder |-> [i \in 1..Len(agg.tagArray) |-> agg.tagArray[i].tag],
     intermediate |-> [cacheTTLHours |-> CACHE_TTL_HOURS]]

\* cf.js 137-140: the aggregate X that the snapshot is built from.
LiveAggregate(subs, ps) ==
    TheOne({computeFailedDifficultyBand(agg1) :
               agg1 \in {[agg0 EXCEPT !.tagArray = computeRecommendationScores(agg0.tagArray)] :
                            agg0 \in {aggregate(subs, ps)}}})

\* Mutant of TagProblemKeys: only the first key of every tag's set is stored.
TagProblemKeysFirstOnly(agg) ==
    [t \in DOMAIN agg.perTagProblemList |-> SubSeq(agg.perTagProblemList[t], 1, 1)]

\* snapshot.tagProblemKeys[t] = [...set] (cf.js 151-154)
TagProblemKeys(agg) ==
    [t \in DOMAIN agg.perTagProblemList |-> agg.perTagProblemList[t]]

\* cf.js 137-155, once both responses are there.
WithTagProblemKeys(snap, agg) ==
    [schemaVersion |-> snap.schemaVersion,
     generatedAt |-> snap.generatedAt,
     handle |-> snap.handle,
     source |-> snap.source,
     problems |-> snap.problems,
     problemOrder |-> snap.problemOrder,
     tags |-> snap.tags,
     tagOrder |-> snap.tagOrder,
     intermediate |-> snap.intermediate,
     tagProblemKeys |-> TagProblemKeys(agg)]

SnapshotFrom(handle, subs, ps, agg, time) ==
    TheOne({WithTagProblemKeys(snap, agg) :
               snap \in {buildSnapshot(handle, subs, ps, agg, tagDifficultyBuckets, time) :
                            tagDifficultyBuckets \in {buildAllTagDifficultyBuckets(agg)}}})

SnapshotOf(handle, subs, ps, time) ==
    TheOne({SnapshotFrom(handle, subs, ps, agg, time) : agg \in {LiveAggregate(subs, ps)}})

\* new Set(arr)
RECURSIVE Dedup(_, _)
Dedup(q, n) ==
    IF n = 0 THEN <<>> ELSE TheOne({SetAdd(d, q[n]) : d \in {Dedup(q, n - 1)}})

\* The agg handed to injectSection (cf.js 447-495).
renderFromSnapshot(snapshot) ==
    [tagArray |->
        [i \in 1..Len(snapshot.tagOrder) |->
            LET tObj == snapshot.tags[snapshot.tagOrder[i]] IN
            [tag |-> snapshot.tagOrder[i],
             totalAvailable |-> tObj.totalAvailable,
             solved |-> tObj.solved,
             solvedContest |-> tObj.solvedContest,
             solvedPractice |-> tObj.solvedPractice,
             solvePercent |-> tObj.solvePercent,
             maxSolved |-> tObj.maxSolved,
             nextTargetDifficulty |-> tObj.nextTargetDifficulty,
             minFailedDifficulty |-> tObj.minFailedDifficulty,
             maxFailedDifficulty |-> tObj.maxFailedDifficulty,
             failSpan |-> tObj.failSpan,
             recommendScore |-> tObj.recommendScore]],
     perTagProblemList |->
        [t \in DOMAIN snapshot.tagProblemKeys |->
            Dedup(snapshot.tagProblemKeys[t], Len(snapshot.tagProblemKeys[t]))],
     perProblemMeta |->
        [k \in DOMAIN snapshot.problems |->
            [rating |-> snapshot.problems[k].rating, tags |-> snapshot.problems[k].tags]],
     metaOrder |-> snapshot.problemOrder,
     perProblemOrigin |->
        [k \in DOMAIN snapshot.problems |->
            [contest |-> snapshot.problems[k].contest,
             practice |-> snapshot.problems[k].practice]],
     perProblemStatus |->
        [k \in DOMAIN snapshot.problems |->
            [solved |-> snapshot.problems[k].solved,
             failedContest |-> snapshot.problems[k].failedContest,
             failedPractice |-> snapshot.problems[k].failedPractice]],
     solvedProblems |-> {k \in DOMAIN snapshot.problems : snapshot.problems[k].solved},
     tagRatingsAll |-> EmptyMap]

rebuildDiffMapFromSnapshot(bucketsObj) ==
    [r \in {IF s = "0" THEN 0 ELSE ParseInt(s) : s \in DOMAIN bucketsObj} |->
        bucketsObj[CHOOSE s \in DOMAIN bucketsObj :
                       (IF s = "0" THEN 0 ELSE ParseInt(s)) = r]]

(***************************************************************************)
(* The snapshot cache (cf.js 110-123) and fetchAndBuildSnapshot (126-160). *)
(* What localStorage holds under the key is one of:                        *)
(*   absent    - getItem returns null                                      *)
(*   empty     - the empty string                                          *)
(*   malformed - a string JSON.parse rejects                               *)
(*   null      - the JSON text null                                        *)
(*   scalar    - JSON that is a number, a string, a boolean or an array    *)
(*   object    - a JSON object, obj                                        *)
(***************************************************************************)
Handle == "tourist"

NoSnapshot == [none |-> TRUE]          \* null where a snapshot is expected
NoAgg == [none |-> TRUE]

TTLms == CACHE_TTL_HOURS * 3600 * 1000

\* A generatedAt that Date cannot parse: getTime() is NaN, and so is the age.
InvalidDate == Null

StoredObject(obj) == [kind |-> "object", obj |-> obj]

loadSnapshot(stored, time) ==
    IF stored.kind \in {"absent", "empty"} THEN NoSnapshot        \* if (!raw) return null
    ELSE IF stored.kind = "malformed" THEN NoSnapshot              \* JSON.parse throws: catch
    ELSE IF stored.kind = "null" THEN NoSnapshot                   \* TypeError: catch
    ELSE IF stored.kind = "scalar" THEN NoSnapshot                 \* undefined !== 2
    ELSE IF stored.obj.schemaVersion # SNAPSHOT_SCHEMA_VERSION THEN NoSnapshot
    \* ageMs > TTL is false when ageMs is NaN
    ELSE IF stored.obj.generatedAt # InvalidDate /\ time - stored.obj.generatedAt > TTLms
    THEN NoSnapshot
    ELSE stored.obj

\* Mutant of saveSnapshot: no try/catch around setItem.
saveSnapshotNoCatch(stored, snap, writeOk) ==
    [storage |-> IF writeOk THEN StoredObject(snap) ELSE stored, threw |-> ~writeOk]

\* Mutant of saveSnapshot: the fresh snapshot is written over the stored one
\* field by field, and the stored problems map is kept.
saveSnapshotMerge(stored, snap, writeOk) ==
    [storage |-> IF ~writeOk THEN stored
                 ELSE IF stored.kind = "object" /\ "problems" \in DOMAIN stored.obj
                 THEN StoredObject([snap EXCEPT !.problems = stored.obj.problems])
                 ELSE StoredObject(snap),
     threw |-> FALSE]

\* JSON.stringify then JSON.parse give back an equal value for the snapshot's
\* plain data (strings, finite numbers, booleans, null, arrays, objects).
\* writeOk = FALSE: setItem throws (quota).
saveSnapshot(stored, snap, writeOk) ==
    [storage |-> IF writeOk THEN StoredObject(snap) ELSE stored, threw |-> FALSE]

\* An API exchange: "ok" (status OK), "apiError" (a JSON body whose status is
\* not OK: fetchJSON returns null), "throw" (fetch or r.json() rejects).
RespKinds == {"ok", "apiError", "throw"}

\* Mutant of fetchAndBuildSnapshot: a failed catalog request counts as an empty catalog.
fetchAndBuildSnapshotPartial(handle, subsResp, psResp, subs, ps, time) ==
    IF subsResp # "ok" THEN NoSnapshot
    ELSE SnapshotOf(handle, subs, IF psResp = "ok" THEN ps ELSE <<>>, time)

fetchAndBuildSnapshot(handle, subsResp, psResp, subs, ps, time) ==
    IF subsResp = "throw" \/ psResp = "throw" THEN NoSnapshot       \* catch (e)
    ELSE IF subsResp # "ok" \/ psResp # "ok" THEN NoSnapshot        \* !subsData || !psData
    ELSE SnapshotOf(handle, subs, ps, time)

(***************************************************************************)
(* Inputs: API records.                                                    *)
(***************************************************************************)
Letters == <<"A", "B", "C", "D">>

\* The i-th problem of the platform: odd ones belong to contest i, even ones
\* have neither contestId nor problemsetName (key PS-<index>).
ProblemRef(i) ==
    [contestId |-> IF i % 2 = 1 THEN i ELSE 0, problemsetName |-> "", index |-> Letters[i]]

CatalogEntry(i, shape) ==
    [contestId |-> ProblemRef(i).contestId, problemsetName |-> "",
     index |-> ProblemRef(i).index, tags |-> shape.tags, rating |-> shape.rating]

\* Catalogs listing the first n <= MaxProblems problems, each of a shape of the pool.
Catalogs(pool) ==
    UNION {{[i \in 1..n |-> CatalogEntry(i, f[i])] : f \in [1..n -> pool]} : n \in 0..MaxProblems}

FoldShapes == {[tags |-> <<"dp">>, rating |-> 800]}

FoldVerdicts == {"OK", "WRONG_ANSWER", "RUNTIME_ERROR", "TESTING"}

\* Submissions for any of the MaxProblems problems (in the catalog or not), plus
\* one without a problem field.
FoldSubPool ==
    {[problem |-> <<ProblemRef(i)>>, verdict |-> v, contestId |-> c] :
        i \in 1..MaxProblems, v \in FoldVerdicts, c \in {0, 7}}
    \cup {[problem |-> <<>>, verdict |-> "OK", contestId |-> 7]}

(***************************************************************************)
(* boot() (cf.js 73-107), the Refresh button (631-635) and the page.       *)
(***************************************************************************)
Start == 2 * TTLms

MaxTicks == 2

\* Cap on the boot() calls awaiting their fetches at one time.
MaxInFlight == 2

TickCount(t) == ((t - Start) \div TTLms) + ((t - Start) % TTLms)

NoBoot ==
    [path |-> "none", forced |-> FALSE, subsResp |-> "none", psResp |-> "none",
     writeOk |-> TRUE]

\* The state of a page on which init() has not run yet.
FreshPage ==
    /\ pc = "load"
    /\ inFlight = 0
    /\ block = "none"
    /\ refreshEnabled = FALSE
    /\ windowSnapshot = NoSnapshot
    /\ rendered = NoAgg
    /\ lastBoot = NoBoot
    /\ bootError = FALSE

\* No scoring run of its own is under way.
ScoreIdle ==
    /\ scoreTags = <<>>
    /\ scoreDone = FALSE

FoldIdle ==
    /\ foldIdx = 0
    /\ perProblemOrigin = EmptyMap
    /\ perProblemStatus = EmptyMap
    /\ solvedProblems = {}
    /\ ScoreIdle

\* renderFromSnapshot reads snapshot.problems and snapshot.tags with
\* Object.entries (cf.js 454, 465), which throws a TypeError on undefined.
Renderable(snapshot) == {"problems", "tags"} \subseteq DOMAIN snapshot

\* boot lines 91-94: a cache hit is installed and rendered. When
\* renderFromSnapshot throws, boot's promise is rejected (init does not catch
\* it) and the placeholder of lines 79-85 stays.
RenderCached(snapshot) ==
    /\ windowSnapshot' = snapshot
    /\ IF Renderable(snapshot)
       THEN /\ rendered' = renderFromSnapshot(snapshot)
            /\ block' = "rendered"
            /\ refreshEnabled' = TRUE
            /\ UNCHANGED bootError
       ELSE /\ block' = IF block = "none" THEN "placeholder" ELSE block
            /\ bootError' = TRUE
            /\ UNCHANGED <<rendered, refreshEnabled>>
    /\ pc' = IF inFlight = 0 THEN "idle" ELSE "fetching"
    /\ lastBoot' = [NoBoot EXCEPT !.path = "cached"]
    /\ UNCHANGED <<storage, now, inFlight>>

\* boot lines 78-85 and 95-97: the placeholder, then the await.
StartFetch ==
    /\ pc' = "fetching"
    /\ inFlight' = inFlight + 1
    /\ block' = IF block = "none" THEN "placeholder" ELSE block
    /\ UNCHANGED <<storage, now, windowSnapshot, rendered, lastBoot, bootError>>

\* init(): boot(handle, false) on page load.
PageBoot ==
    /\ pc = "load"
    /\ \E snapshot \in {loadSnapshot(storage, now)} :
       IF snapshot # NoSnapshot
       THEN RenderCached(snapshot)
       ELSE StartFetch /\ UNCHANGED refreshEnabled
    /\ UNCHANGED foldVars

\* Mutant of ClickRefresh: the click calls boot(handle, false).
ClickRefreshReadsCache ==
    /\ pc # "load"
    /\ inFlight < MaxInFlight
    /\ block = "rendered"
    /\ refreshEnabled
    /\ \E snapshot \in {loadSnapshot(storage, now)} :
          IF snapshot # NoSnapshot
          THEN RenderCached(snapshot)
          ELSE StartFetch /\ refreshEnabled' = FALSE
    /\ UNCHANGED foldVars

\* Mutant of ClickRefresh: the click leaves the button enabled.
ClickRefreshKeepsEnabled ==
    /\ pc # "load"
    /\ inFlight < MaxInFlight
    /\ block = "rendered"
    /\ refreshEnabled
    /\ UNCHANGED refreshEnabled
    /\ StartFetch
    /\ UNCHANGED foldVars

\* The Refresh click on the enabled button of the rendered block: the button is
\* disabled, then boot(handle, true).
ClickRefresh ==
    /\ pc # "load"
    /\ inFlight < MaxInFlight
    /\ block = "rendered"
    /\ refreshEnabled
    /\ refreshEnabled' = FALSE
    /\ StartFetch
    /\ UNCHANGED foldVars

\* Both requests have settled: the rest of fetchAndBuildSnapshot and of boot.
FetchDone(subsResp, psResp, writeOk) ==
    /\ inFlight > 0
    /\ inFlight' = inFlight - 1
    /\ pc' = IF inFlight = 1 THEN "idle" ELSE "fetching"
    /\ \E fresh \in {fetchAndBuildSnapshot(Handle, subsResp, psResp, submissions,
                                            problemset, now)} :
           IF fresh # NoSnapshot
           THEN LET saved == saveSnapshot(storage, fresh, writeOk) IN
                /\ storage' = saved.storage
                /\ lastBoot' = [path |-> "fresh", forced |-> block = "rendered",
                                subsResp |-> subsResp, psResp |-> psResp,
                                writeOk |-> writeOk]
                /\ IF saved.threw
                   THEN /\ bootError' = TRUE
                        /\ UNCHANGED <<windowSnapshot, rendered, block, refreshEnabled>>
                   ELSE /\ windowSnapshot' = fresh
                        /\ rendered' = renderFromSnapshot(fresh)
                        /\ block' = "rendered"
                        /\ refreshEnabled' = TRUE
                        /\ UNCHANGED bootError
           ELSE /\ block' = "failed"
                /\ refreshEnabled' = FALSE
                /\ lastBoot' = [path |-> "failed", forced |-> block = "rendered",
                                subsResp |-> subsResp, psResp |-> psResp,
                                writeOk |-> TRUE]
                /\ UNCHANGED <<storage, windowSnapshot, rendered, bootError>>
    /\ UNCHANGED <<now, foldVars>>

\* Time passes: one millisecond, or one cache lifetime.
Tick(d) ==
    /\ TickCount(now) < MaxTicks
    /\ now' = now + d
    /\ UNCHANGED <<foldVars, storage, pc, inFlight, block, refreshEnabled, windowSnapshot,
                   rendered, lastBoot, bootError>>

\* The user reloads the profile page: the document and the script start over,
\* localStorage stays.
Reload ==
    /\ pc # "load"
    /\ pc' = "load"
    /\ inFlight' = 0
    /\ block' = "none"
    /\ refreshEnabled' = FALSE
    /\ windowSnapshot' = NoSnapshot
    /\ rendered' = NoAgg
    /\ lastBoot' = NoBoot
    /\ bootError' = FALSE
    /\ UNCHANGED <<foldVars, storage, now>>

\* What the API serves for the handle in the boot specification.
BootCatalog ==
    <<CatalogEntry(1, [tags |-> <<"dp">>, rating |-> 800]),
      CatalogEntry(2, [tags |-> <<"dp", "math">>, rating |-> 1500])>>

BootSubmissions ==
    {<<>>,
     <<[problem |-> <<ProblemRef(1)>>, verdict |-> "WRONG_ANSWER", contestId |-> 7],
       [problem |-> <<ProblemRef(1)>>, verdict |-> "OK", contestId |-> 0]>>}

\* What the key may hold when the page is opened: nothing, garbage, a JSON
\* object with nothing but a current schemaVersion and a recent generatedAt, or
\* a snapshot an earlier visit wrote (before the user had any submission), of
\* this or an older schema, of several ages, or with an unreadable generatedAt.
InitialStored ==
    {[kind |-> "absent"], [kind |-> "empty"], [kind |-> "malformed"],
     [kind |-> "null"], [kind |-> "scalar"],
     StoredObject([schemaVersion |-> SNAPSHOT_SCHEMA_VERSION, generatedAt |-> Start - 1])}
    \cup {StoredObject([SnapshotOf(Handle, <<>>, BootCatalog, g) EXCEPT !.schemaVersion = v]) :
             v \in {1, SNAPSHOT_SCHEMA_VERSION},
             g \in {Start - TTLms - 1, Start - TTLms, Start - 1, InvalidDate}}

Init ==
    /\ problemset = BootCatalog
    /\ submissions \in BootSubmissions
    /\ FoldIdle
    /\ storage \in InitialStored
    /\ now = Start
    /\ FreshPage

Next ==
    \/ PageBoot
    \/ ClickRefresh
    \/ \E subsResp \in RespKinds, psResp \in RespKinds, writeOk \in BOOLEAN :
          FetchDone(subsResp, psResp, writeOk)
    \/ \E d \in {1, TTLms} : Tick(d)
    \/ Reload

Spec == Init /\ [][Next]_vars

(***************************************************************************)
(* SpecAgg: the same page over a wide range of API data, with both         *)
(* requests and the cache write succeeding: a first visit fetches,         *)
(* aggregates, stores and renders; after a reload the stored snapshot is   *)
(* read back and rendered.                                                 *)
(***************************************************************************)
\* Catalog entries: a rated single-tag problem, a rated two-tag problem, and an
\* unrated one whose tag list repeats a tag.
AggShapes ==
    {[tags |-> <<"dp">>, rating |-> 800],
     [tags |-> <<"dp", "math">>, rating |-> 1500],
     [tags |-> <<"math", "math">>, rating |-> 0]}

\* The user has submissions for the first two problems of the platform only.
AggSubmitted == {1, 2}

AggSubPool ==
    {[problem |-> <<ProblemRef(i)>>, verdict |-> v, contestId |-> c] :
        i \in AggSubmitted, v \in {"OK", "WRONG_ANSWER"}, c \in {0, 7}}

InitAgg ==
    /\ problemset \in Catalogs(AggShapes)
    /\ submissions \in BoundedSeq(AggSubPool, MaxSubs)
    /\ FoldIdle
    /\ storage = [kind |-> "absent"]
    /\ now = Start
    /\ FreshPage

NextAgg ==
    \/ PageBoot
    \/ FetchDone("ok", "ok", TRUE)
    \/ Reload

SpecAgg == InitAgg /\ [][NextAgg]_vars

(***************************************************************************)
(* SpecFold: the submission loop of aggregate(), one iteration per step.   *)
(***************************************************************************)
InitFold ==
    /\ problemset \in Catalogs(FoldShapes)
    /\ submissions \in BoundedSeq(FoldSubPool, MaxSubs)
    /\ foldIdx = 1
    /\ perProblemOrigin = EmptyMap
    /\ perProblemStatus = EmptyMap
    /\ solvedProblems = {}
    /\ ScoreIdle
    /\ storage = [kind |-> "absent"]
    /\ now = Start
    /\ FreshPage

FoldStep ==
    /\ foldIdx <= Len(submissions)
    /\ LET c == ClassifyStep([origin |-> perProblemOrigin, status |-> perProblemStatus,
                              solved |-> solvedProblems],
                             submissions[foldIdx], probIndexOf(problemset))
       IN  /\ perProblemOrigin' = c.origin
           /\ perProblemStatus' = c.status
           /\ solvedProblems' = c.solved
    /\ foldIdx' = foldIdx + 1
    /\ UNCHANGED <<problemset, submissions, bootVars, scoreVars>>

NextFold == FoldStep

SpecFold == InitFold /\ [][NextFold]_vars

(***************************************************************************)
(* SpecScore: one scoring run (cf.js 138) over the tag statistics that     *)
(* aggregate() returns for a catalog and a set of solved problems.         *)
(***************************************************************************)
MaxScoreProblems == 3

\* Catalog entries whose ratings leave gaps of 200, 500 and none to the next target.
ScoreShapes ==
    {[tags |-> <<"dp", "math">>, rating |-> 800],
     [tags |-> <<"dp">>, rating |-> 1000],
     [tags |-> <<"dp">>, rating |-> 1300],
     [tags |-> <<"math">>, rating |-> 1300],
     [tags |-> <<"math">>, rating |-> 0]}

ScoreCatalogs ==
    UNION {{[i \in 1..n |-> CatalogEntry(i, f[i])] : f \in [1..n -> ScoreShapes]} :
              n \in 0..MaxScoreProblems}

\* One accepted submission for every problem of solvedSet, in increasing order.
RECURSIVE AcceptedSubs(_, _)
AcceptedSubs(solvedSet, n) ==
    IF n = 0 THEN <<>>
    ELSE IF n \in solvedSet
         THEN Append(AcceptedSubs(solvedSet, n - 1),
                     [problem |-> <<ProblemRef(n)>>, verdict |-> "OK",
                      contestId |-> ProblemRef(n).contestId])
         ELSE AcceptedSubs(solvedSet, n - 1)

InitScore ==
    /\ problemset \in ScoreCatalogs
    /\ \E solvedSet \in SUBSET (1..Len(problemset)) :
          submissions = AcceptedSubs(solvedSet, Len(problemset))
    /\ scoreTags = aggregate(submissions, problemset).tagArray
    /\ scoreDone = FALSE
    /\ foldIdx = 0
    /\ perProblemOrigin = EmptyMap
    /\ perProblemStatus = EmptyMap
    /\ solvedProblems = {}
    /\ storage = [kind |-> "absent"]
    /\ now = Start
    /\ FreshPage

\* computeRecommendationScores(agg.tagArray, agg.tagRatingsAll) (cf.js 138).
Score ==
    /\ ~scoreDone
    /\ scoreTags' = computeRecommendationScores(scoreTags)
    /\ scoreDone' = TRUE
    /\ UNCHANGED <<problemset, submissions, foldIdx, perProblemOrigin,
                   perProblemStatus, solvedProblems, bootVars>>

NextScore == Score

SpecScore == InitScore /\ [][NextScore]_vars

(***************************************************************************)
(* Properties of the submission loop.                                      *)
(***************************************************************************)
FoldDone == foldIdx > Len(submissions)

IndexPermutations(n) == {f \in [1..n -> 1..n] : \A i, j \in 1..n : f[i] = f[j] => i = j}

Permuted(subs, f) == [i \in 1..Len(subs) |-> subs[f[i]]]

\* What consumers read: a failure flag counts only while the problem is unsolved.
Effective(c) ==
    [origin |-> c.origin,
     solved |-> c.solved,
     status |-> [k \in DOMAIN c.status |->
                   [solved |-> c.status[k].solved,
                    failedContest |-> c.status[k].failedContest /\ ~c.status[k].solved,
                    failedPractice |-> c.status[k].failedPractice /\ ~c.status[k].solved]]]

CurrentClass ==
    [origin |-> perProblemOrigin, status |-> perProblemStatus, solved |-> solvedProblems]

\* C1: during the fold, once a problem's status.solved is true it stays true,
\* and no later submission turns its failedContest or failedPractice from
\* false to true.
C1_ClassificationMonotone ==
    [][\A k \in DOMAIN perProblemStatus :
          perProblemStatus[k].solved =>
             /\ k \in DOMAIN perProblemStatus'
             /\ perProblemStatus'[k].solved
             /\ perProblemStatus'[k].failedContest => perProblemStatus[k].failedContest
             /\ perProblemStatus'[k].failedPractice => perProblemStatus[k].failedPractice
      ]_vars

\* C1 witness: a qualifying failure for a catalog problem has been folded after
\* an accepted submission for the same problem.
C1_Witness ==
    \E i, j \in 1..Len(submissions) :
        /\ i < j /\ j < foldIdx
        /\ Len(submissions[i].problem) = 1 /\ Len(submissions[j].problem) = 1
        /\ probKey(submissions[i].problem[1]) = probKey(submissions[j].problem[1])
        /\ probKey(submissions[i].problem[1]) \in probIndexOf(problemset)
        /\ submissions[i].verdict = "OK"
        /\ submissions[j].verdict \in contestFailVerdicts

\* C2 (as stated): every permutation of the submission list gives the same
\* final Origin, Status {solved, failedContest, failedPractice} and solved set.
C2_OrderIndependentRaw ==
    FoldDone =>
        \A f \in IndexPermutations(Len(submissions)) :
            Classify(Permuted(submissions, f), probIndexOf(problemset)) = CurrentClass

\* C2 (amended): every permutation of the submission list gives the same final
\* Origin, solved flag and solved set, and the same failure flags as consumers
\* read them (failedX and not solved); the stored failedContest / failedPractice
\* of a solved problem depend on the order.
C2_OrderIndependentEffective ==
    FoldDone =>
        \A f \in IndexPermutations(Len(submissions)) :
            Effective(Classify(Permuted(submissions, f), probIndexOf(problemset)))
                = Effective(CurrentClass)

\* C2 witness: the fold is over and the order mattered for a stored flag: a
\* solved problem keeps a failure flag from a submission folded before its solve.
C2_Witness ==
    /\ FoldDone
    /\ \E k \in DOMAIN perProblemStatus :
          perProblemStatus[k].solved /\ perProblemStatus[k].failedContest

(***************************************************************************)
(* Properties of the aggregate, the snapshot and the rehydrated aggregate. *)
(***************************************************************************)
TagsOfAgg(agg) == {agg.tagArray[i].tag : i \in 1..Len(agg.tagArray)}

StatOfTag(agg, t) ==
    agg.tagArray[CHOOSE i \in 1..Len(agg.tagArray) : agg.tagArray[i].tag = t]

NumericFields(stat) ==
    [totalAvailable |-> stat.totalAvailable,
     solved |-> stat.solved,
     solvedContest |-> stat.solvedContest,
     solvedPractice |-> stat.solvedPractice,
     solvePercent |-> stat.solvePercent,
     maxSolved |-> stat.maxSolved,
     nextTargetDifficulty |-> stat.nextTargetDifficulty,
     minFailedDifficulty |-> stat.minFailedDifficulty,
     maxFailedDifficulty |-> stat.maxFailedDifficulty,
     failSpan |-> stat.failSpan,
     recommendScore |-> stat.recommendScore]

\* For every tag of X, in X's order: the rehydrated TagStat has X's numeric
\* fields, and the stored buckets rebuild to X's difficulty buckets.
SameTagsAs(X) ==
    /\ Len(rendered.tagArray) = Len(X.tagArray)
    /\ \A i \in 1..Len(X.tagArray) :
          /\ rendered.tagArray[i].tag = X.tagArray[i].tag
          /\ NumericFields(rendered.tagArray[i]) = NumericFields(X.tagArray[i])
    /\ DOMAIN windowSnapshot.tags = TagsOfAgg(X)
    /\ \A live \in {buildAllTagDifficultyBuckets(X)} :
          \A t \in TagsOfAgg(X) :
             /\ t \in DOMAIN live
             /\ rebuildDiffMapFromSnapshot(windowSnapshot.tags[t].difficultyBuckets) = live[t]

\* For every problem key of X: the rehydrated solved flag, solved set and
\* origin are X's.
SameSolvedAndOriginAs(X) ==
    /\ DOMAIN rendered.perProblemMeta = DOMAIN X.perProblemMeta
    /\ DOMAIN rendered.perProblemStatus = DOMAIN X.perProblemMeta
    /\ DOMAIN rendered.perProblemOrigin = DOMAIN X.perProblemMeta
    /\ rendered.solvedProblems = X.solvedProblems
    /\ \A k \in DOMAIN X.perProblemMeta :
          /\ rendered.perProblemStatus[k].solved = StatusOf(X.perProblemStatus, k).solved
          /\ rendered.perProblemOrigin[k] = OriginOf(X.perProblemOrigin, k)

RECURSIVE SumTotals(_, _)
SumTotals(buckets, keys) ==
    IF keys = {} THEN 0
    ELSE LET s == CHOOSE x \in keys : TRUE
         IN  buckets[s].total + SumTotals(buckets, keys \ {s})

\* C5 (as stated): in the snapshot of a fresh aggregate, every (tag, rating)
\* bucket has total = solvedContest + solvedPractice + failedContest + unsolved,
\* and the totals of a tag's buckets add up to the tag's totalAvailable.
C5_BucketTotals ==
    lastBoot.path = "fresh" =>
        \A t \in DOMAIN windowSnapshot.tags :
            LET buckets == windowSnapshot.tags[t].difficultyBuckets IN
            /\ \A s \in DOMAIN buckets :
                  buckets[s].total = buckets[s].solvedContest + buckets[s].solvedPractice
                                        + buckets[s].failedContest + buckets[s].unsolved
            /\ SumTotals(buckets, DOMAIN buckets) = windowSnapshot.tags[t].totalAvailable

\* Tags a user can combine: two the catalogs use, one they never do.
QueryTags == {"dp", "math", "greedy"}

\* The catalog's problems whose tag list contains every tag of S.
TaggedWithAll(S) ==
    {i \in 1..Len(problemset) : S \subseteq Range(problemset[i].tags)}

\* The single-problem bucket buildAllTagDifficultyBuckets' loop body makes of
\* the i-th catalog problem.
BucketOfProblem(i) ==
    TagBucketStep(EmptyMap, probKey(problemset[i]), rendered)[problemset[i].rating]

\* The bucket map that counts each problem of I once, at its rating, in the
\* class buildAllTagDifficultyBuckets gives it.
ExpectedBuckets(I) ==
    [r \in {problemset[i].rating : i \in I} |->
        LET at == {i \in I : problemset[i].rating = r} IN
        [solvedContest  |-> Cardinality({i \in at : BucketOfProblem(i).solvedContest = 1}),
         solvedPractice |-> Cardinality({i \in at : BucketOfProblem(i).solvedPractice = 1}),
         failedContest  |-> Cardinality({i \in at : BucketOfProblem(i).failedContest = 1}),
         unsolved       |-> Cardinality({i \in at : BucketOfProblem(i).unsolved = 1}),
         total          |-> Cardinality(at)]]

\* C6: for any two tags A and B, buildIntersectionBuckets([A, B]) on the
\* rendered aggregate counts exactly the catalog problems tagged with both, each
\* once in the bucket of its rating (0 for unrated), in the class that
\* buildAllTagDifficultyBuckets gives the problem.
C6_IntersectionCorrect ==
    rendered # NoAgg =>
        \A A \in QueryTags, B \in QueryTags :
            buildIntersectionBuckets(<<A, B>>, rendered) = ExpectedBuckets(TaggedWithAll({A, B}))

\* C6 witness: some problems carry both dp and math and are solved, others
\* carry only one of the two.
C6_Witness ==
    /\ rendered # NoAgg
    /\ \E i \in TaggedWithAll({"dp", "math"}) :
          probKey(problemset[i]) \in rendered.solvedProblems
    /\ TaggedWithAll({"dp"}) \ TaggedWithAll({"math"}) # {}

\* The catalog problems with an accepted contest submission and an accepted
\* practice submission.
DualOriginKeys ==
    {k \in probIndexOf(problemset) :
        \E i, j \in 1..Len(submissions) :
            /\ Len(submissions[i].problem) = 1 /\ probKey(submissions[i].problem[1]) = k
            /\ Len(submissions[j].problem) = 1 /\ probKey(submissions[j].problem[1]) = k
            /\ submissions[i].verdict = "OK" /\ submissions[i].contestId # 0
            /\ submissions[j].verdict = "OK" /\ submissions[j].contestId = 0}

\* The submission list without the submissions for problem k.
SubsWithout(k) ==
    SelectSeq(submissions,
              LAMBDA s : ~(Len(s.problem) = 1 /\ probKey(s.problem[1]) = k))

Occurrences(t, tags) == Cardinality({i \in 1..Len(tags) : tags[i] = t})

MaxTagList == 2

\* C9: for every list of tags, buildIntersectionBuckets gives the same bucket
\* map on the live aggregate X and on the aggregate rehydrated from the
\* snapshot of X.
C9_IntersectionLiveEqualsRehydrated ==
    rendered # NoAgg =>
        \A X \in {LiveAggregate(submissions, problemset)} :
            \A tags \in BoundedSeq(QueryTags, MaxTagList) :
                buildIntersectionBuckets(tags, X) = buildIntersectionBuckets(tags, rendered)

\* C9 witness: an aggregate rehydrated from storage whose dp-and-math
\* intersection is not empty while the tags have other problems too.
C9_Witness ==
    /\ lastBoot.path = "cached"
    /\ DOMAIN buildIntersectionBuckets(<<"dp", "math">>, rendered) # {}
    /\ TaggedWithAll({"math"}) \ TaggedWithAll({"dp"}) # {}
    /\ rendered.solvedProblems # {}

(***************************************************************************)
(* Properties of boot and the cache.                                       *)
(***************************************************************************)
\* The stored value is a snapshot of the current schema version whose age is
\* at most the TTL.
StoredIsCurrent ==
    /\ storage.kind = "object"
    /\ storage.obj.schemaVersion = SNAPSHOT_SCHEMA_VERSION
    /\ storage.obj.generatedAt # InvalidDate
    /\ now - storage.obj.generatedAt <= TTLms

\* C4 (as stated): a non-forced boot renders the stored value only if its
\* schemaVersion is 2 and now - generatedAt is at most the TTL; in every other
\* case it renders nothing stored and starts a fetch.
C4_CacheStaleness ==
    [][(pc = "load" /\ pc' # "load" /\ ~StoredIsCurrent) =>
          /\ pc' = "fetching"
          /\ windowSnapshot' = windowSnapshot
          /\ rendered' = rendered
      ]_vars

\* C7: when either request throws or answers with a non-OK status, the boot
\* (first or forced) ends as failed, and the stored value and the installed
\* snapshot are what they were.
C7_FetchFailureLeavesCache ==
    [][(pc = "fetching" /\ pc' = "idle"
          /\ (lastBoot'.subsResp # "ok" \/ lastBoot'.psResp # "ok")) =>
          /\ lastBoot'.path = "failed"
          /\ storage' = storage
          /\ windowSnapshot' = windowSnapshot
          /\ rendered' = rendered
          /\ block' = "failed"
      ]_vars

\* C7 witness: a forced refresh has failed over a rendered snapshot that is
\* in storage.
C7_Witness ==
    /\ lastBoot.path = "failed"
    /\ lastBoot.subsResp = "ok"
    /\ lastBoot.psResp = "apiError"
    /\ block = "failed"
    /\ windowSnapshot # NoSnapshot
    /\ storage = StoredObject(windowSnapshot)

\* C10: when the write to storage fails, boot raises no error and installs and
\* renders the fresh snapshot as after a successful write; only the stored
\* value stays what it was.
C10_WriteFailureSwallowed ==
    [][(pc = "fetching" /\ pc' = "idle" /\ lastBoot'.path = "fresh" /\ ~lastBoot'.writeOk) =>
          /\ storage' = storage
          /\ bootError' = FALSE
          /\ windowSnapshot' = SnapshotOf(Handle, submissions, problemset, now)
          /\ rendered' = renderFromSnapshot(windowSnapshot')
          /\ block' = "rendered"
          /\ refreshEnabled' = TRUE
      ]_vars

\* C10 witness: a fresh snapshot is rendered although its write failed, and
\* storage holds something else.
C10_Witness ==
    /\ lastBoot.path = "fresh"
    /\ ~lastBoot.writeOk
    /\ block = "rendered"
    /\ storage # StoredObject(windowSnapshot)
    /\ ~bootError

\* C11 (as stated): whatever string the key holds, a non-forced boot raises no
\* uncaught error, and once it is over the block shows data or the 'failed to
\* load' message.
C11_CorruptCacheIsAMiss ==
    /\ ~bootError
    /\ (pc = "idle" /\ lastBoot.path # "none") => block \in {"rendered", "failed"}

\* C12: every step leaves under the key either the value it held or exactly the
\* snapshot that this boot's fetch+aggregate cycle built, and a forced refresh
\* whose fetch and write succeed leaves that snapshot both under the key and in
\* window.__CF_SNAPSHOT__.
C12_WholesaleReplacement ==
    [][\A built \in {StoredObject(SnapshotOf(Handle, submissions, problemset, now))} :
          /\ storage' = storage \/ (pc = "fetching" /\ storage' = built)
          /\ (pc = "fetching" /\ pc' = "idle" /\ block = "rendered"
                 /\ lastBoot'.path = "fresh" /\ lastBoot'.writeOk) =>
                (storage' = built /\ windowSnapshot' = built.obj)
      ]_vars

\* C12 witness: a forced refresh has succeeded and replaced an older stored
\* snapshot, built when the user had no accepted submission, by one that has
\* solved problems.
C12_Witness ==
    /\ lastBoot.path = "fresh"
    /\ lastBoot.forced
    /\ lastBoot.writeOk
    /\ storage = StoredObject(windowSnapshot)
    /\ windowSnapshot.generatedAt > Start
    /\ \E k \in DOMAIN windowSnapshot.problems : windowSnapshot.problems[k].solved

\* C13: a non-forced boot whose cache read returns a snapshot installs it
\* without issuing a fetch, running the aggregation or writing the cache; a
\* forced boot (the Refresh click) issues a fetch whatever the cache holds,
\* without reading it.
C13_CacheHitSkipsSources ==
    [][/\ (pc = "load" /\ pc' # "load" /\ loadSnapshot(storage, now) # NoSnapshot) =>
             /\ pc' = "idle"
             /\ lastBoot'.path = "cached"
             /\ windowSnapshot' = storage.obj
             /\ storage' = storage
             /\ UNCHANGED foldVars
       /\ (pc = "idle" /\ refreshEnabled /\ pc' # "load" /\ now' = now) =>
             /\ pc' = "fetching"
             /\ UNCHANGED <<storage, windowSnapshot, rendered, lastBoot>>
      ]_vars

\* C13 witness: after a boot served from the cache, a forced boot's fetch is in
\* flight although the cache still holds a snapshot a read would return.
C13_Witness ==
    /\ pc = "fetching"
    /\ block = "rendered"
    /\ lastBoot.path = "cached"
    /\ loadSnapshot(storage, now) = windowSnapshot

\* The keys that the index lists under every one of the first n tags.
CommonKeys(tags, n, index) ==
    {k \in Range(index[tags[1]]) : \A i \in 1..n : k \in Range(index[tags[i]])}

\* C14: for every non-empty tag list, when a tag has no entry in the
\* tag-to-problem-set index, or the intersection of a prefix of the list is
\* empty, buildIntersectionBuckets returns the empty bucket map.
C14_UnknownTagOrEmptyIntersection ==
    rendered # NoAgg =>
        \A tags \in BoundedSeq(QueryTags, MaxTagList) \ {<<>>} :
            LET index == rendered.perTagProblemList IN
            (\/ \E i \in 1..Len(tags) : tags[i] \notin DOMAIN index
             \/ \E n \in 1..Len(tags) : CommonKeys(tags, n, index) = {})
                => buildIntersectionBuckets(tags, rendered) = EmptyMap

\* C14 witness: the index knows dp and math, no problem carries both, and a
\* list of a known tag followed by an unknown one is queried too.
C14_Witness ==
    /\ rendered # NoAgg
    /\ {"dp", "math"} \subseteq DOMAIN rendered.perTagProblemList
    /\ "greedy" \notin DOMAIN rendered.perTagProblemList
    /\ CommonKeys(<<"dp", "math">>, 2, rendered.perTagProblemList) = {}
    /\ buildIntersectionBuckets(<<"dp", "greedy">>, rendered) = EmptyMap

(***************************************************************************)
(* Properties of single iterations of the submission loop.                 *)
(***************************************************************************)
\* The verdicts the claim lists: wrong-answer, time-limit-exceeded,
\* memory-limit-exceeded, idleness-limit-exceeded, rejected, failed,
\* presentation-error, challenged, partial, compilation-error, crashed, skipped.
ListedFailVerdicts ==
    {"WRONG_ANSWER", "TIME_LIMIT_EXCEEDED", "MEMORY_LIMIT_EXCEEDED",
     "IDLENESS_LIMIT_EXCEEDED", "REJECTED", "FAILED", "PRESENTATION_ERROR",
     "CHALLENGED", "PARTIAL", "COMPILATION_ERROR", "CRASHED", "SKIPPED"}

\* The iteration folds a non-accepted submission for a catalog problem, and:
\* the problem's failedContest (with a contest id) or failedPractice (without)
\* is set exactly when the problem is not yet solved and the verdict is in
\* qualifying; every other flag of every problem reads as before.
NonAcceptedStepSets(qualifying) ==
    (foldIdx <= Len(submissions) /\ foldIdx' = foldIdx + 1
       /\ Len(submissions[foldIdx].problem) = 1
       /\ probKey(submissions[foldIdx].problem[1]) \in probIndexOf(problemset)
       /\ submissions[foldIdx].verdict # "OK") =>
       LET sub    == submissions[foldIdx]
           key    == probKey(sub.problem[1])
           before == StatusOf(perProblemStatus, key)
           hit    == ~before.solved /\ sub.verdict \in qualifying
       IN  /\ solvedProblems' = solvedProblems
           /\ \A k \in probIndexOf(problemset) :
                 /\ OriginOf(perProblemOrigin', k) = OriginOf(perProblemOrigin, k)
                 /\ StatusOf(perProblemStatus', k) =
                       IF k # key THEN StatusOf(perProblemStatus, k)
                       ELSE [solved |-> before.solved,
                             failedContest |->
                                before.failedContest \/ (hit /\ sub.contestId # 0),
                             failedPractice |->
                                before.failedPractice \/ (hit /\ sub.contestId = 0)]

\* C15 (as stated): a non-accepted submission sets its problem's failedContest /
\* failedPractice if and only if the problem is not yet solved and the verdict
\* is one of the twelve listed; every other non-accepted verdict leaves Origin
\* and Status unchanged.
C15_QualifyingVerdictsListed == [][NonAcceptedStepSets(ListedFailVerdicts)]_vars

\* C15 (amended): the same with runtime-error added to the set of qualifying
\* verdicts.
C15_QualifyingVerdictsWithRuntimeError ==
    [][NonAcceptedStepSets(ListedFailVerdicts \cup {"RUNTIME_ERROR"})]_vars

\* C15 witness: a runtime-error contest submission has set failedContest of an
\* unsolved catalog problem, and a pending verdict was folded as well.
C15_Witness ==
    \E i, j \in 1..Len(submissions) :
        /\ i < foldIdx /\ j < foldIdx
        /\ submissions[i].verdict = "RUNTIME_ERROR"
        /\ submissions[i].contestId # 0
        /\ Len(submissions[i].problem) = 1
        /\ probKey(submissions[i].problem[1]) \in DOMAIN perProblemStatus
        /\ perProblemStatus[probKey(submissions[i].problem[1])].failedContest
        /\ ~perProblemStatus[probKey(submissions[i].problem[1])].solved
        /\ submissions[j].verdict = "TESTING"

(***************************************************************************)
(* Properties of the per-tag statistics.                                   *)
(***************************************************************************)
\* The catalog problems that list tag t.
ProblemsOfTag(t) == {i \in 1..Len(problemset) : t \in Range(problemset[i].tags)}

RenderedStatus(i) == rendered.perProblemStatus[probKey(problemset[i])]

\* The ratings of the tag's problems that are unsolved, rated and failed in a
\* contest.
FailedRatings(t) ==
    {problemset[i].rating :
        i \in {j \in ProblemsOfTag(t) : /\ problemset[j].rating # 0
                                        /\ ~RenderedStatus(j).solved
                                        /\ RenderedStatus(j).failedContest}}

\* C16: for every tag, minFailedDifficulty and maxFailedDifficulty are the
\* minimum and maximum rating over exactly the tag's unsolved, rated problems
\* with failedContest, failSpan is their difference, and all three are null when
\* there is no such problem; practice failures do not count.
C16_FailBand ==
    rendered # NoAgg =>
        \A t \in TagsOfAgg(rendered) :
            LET stat == StatOfTag(rendered, t)
                F    == FailedRatings(t)
            IN  IF F = {}
                THEN /\ stat.minFailedDifficulty = Null
                     /\ stat.maxFailedDifficulty = Null
                     /\ stat.failSpan = Null
                ELSE /\ stat.minFailedDifficulty \in F
                     /\ stat.maxFailedDifficulty \in F
                     /\ \A r \in F : stat.minFailedDifficulty <= r /\ r <= stat.maxFailedDifficulty
                     /\ stat.failSpan = stat.maxFailedDifficulty - stat.minFailedDifficulty

\* C16 witness: a tag has a fail band while another of its rated, unsolved
\* problems failed in practice only.
C16_Witness ==
    /\ rendered # NoAgg
    /\ \E t \in TagsOfAgg(rendered) :
          /\ StatOfTag(rendered, t).minFailedDifficulty # Null
          /\ \E i \in ProblemsOfTag(t) :
                /\ problemset[i].rating # 0
                /\ problemset[i].rating # StatOfTag(rendered, t).minFailedDifficulty
                /\ RenderedStatus(i).failedPractice
                /\ ~RenderedStatus(i).failedContest

\* The ratings of the tag's rated problems, and of its solved rated problems.
RatedRatings(t) ==
    {problemset[i].rating : i \in {j \in ProblemsOfTag(t) : problemset[j].rating # 0}}

SolvedRatings(t) ==
    {problemset[i].rating :
        i \in {j \in ProblemsOfTag(t) : problemset[j].rating # 0 /\ RenderedStatus(j).solved}}

CounterOf(i, X) ==
    LET status == StatusOf(X.perProblemStatus, probKey(problemset[i]))
        origin == OriginOf(X.perProblemOrigin, probKey(problemset[i]))
    IN  IF status.solved /\ origin.contest THEN "solvedContest"
        ELSE IF status.solved /\ origin.practice THEN "solvedPractice"
        ELSE IF ~status.solved /\ status.failedContest THEN "failedContest"
        ELSE "unsolved"

\* The buckets of tag t when each of its problems counts once in total and once
\* in its counter, in the bucket of its rating (0 if unrated).
PartitionOf(t, X) ==
    [r \in {problemset[i].rating : i \in ProblemsOfTag(t)} |->
        LET at == {i \in ProblemsOfTag(t) : problemset[i].rating = r} IN
        [solvedContest  |-> Cardinality({i \in at : CounterOf(i, X) = "solvedContest"}),
         solvedPractice |-> Cardinality({i \in at : CounterOf(i, X) = "solvedPractice"}),
         failedContest  |-> Cardinality({i \in at : CounterOf(i, X) = "failedContest"}),
         unsolved       |-> Cardinality({i \in at : CounterOf(i, X) = "unsolved"}),
         total          |-> Cardinality(at)]]

\* C18: the difficulty buckets built from the live aggregate X count every
\* problem of a tag once in total and in exactly one counter of the bucket of
\* its rating, chosen by the precedence solved-contest > solved-practice >
\* failed-contest > unsolved; a solved problem whose failedContest flag is set
\* counts as solved.
C18_BucketPrecedence ==
    lastBoot.path = "fresh" =>
        \A X \in {LiveAggregate(submissions, problemset)} :
            /\ DOMAIN windowSnapshot.tags = TagsOfAgg(X)
            /\ \A t \in TagsOfAgg(X) :
                  rebuildDiffMapFromSnapshot(windowSnapshot.tags[t].difficultyBuckets)
                     = PartitionOf(t, X)

\* C18 witness: buckets were built while a solved problem has its failedContest
\* flag set and another problem is unsolved with a contest failure.
C18_Witness ==
    /\ lastBoot.path = "fresh"
    /\ \E i, j \in 1..Len(problemset) :
          LET X == LiveAggregate(submissions, problemset) IN
          /\ StatusOf(X.perProblemStatus, probKey(problemset[i])).solved
          /\ StatusOf(X.perProblemStatus, probKey(problemset[i])).failedContest
          /\ CounterOf(j, X) \in {"failedContest", "unsolved"}

\* A submission whose problem key is not in the Problem Index.
AbsentFromCatalog(sub) ==
    Len(sub.problem) > 0 /\ probKey(sub.problem[1]) \notin probIndexOf(problemset)

\* The submission list without the submissions for problems absent from the catalog.
InCatalogSubs == SelectSeq(submissions, LAMBDA sub : ~AbsentFromCatalog(sub))

\* C19: the submissions whose problem key is not in the Problem Index change
\* nothing: the live aggregate has the same per-problem Origin and Status, the
\* same solved set and the same TagStats as the aggregate of the list without
\* them, no map has an entry for a key outside the catalog, and the stored
\* problems and tags (difficulty buckets included) are the same.
C19_AbsentSubmissionsIgnored ==
    lastBoot.path = "fresh" =>
        \A X \in {LiveAggregate(submissions, problemset)} :
        \A Y \in {LiveAggregate(InCatalogSubs, problemset)} :
            /\ X.perProblemOrigin = Y.perProblemOrigin
            /\ X.perProblemStatus = Y.perProblemStatus
            /\ X.solvedProblems = Y.solvedProblems
            /\ X.tagArray = Y.tagArray
            /\ DOMAIN X.perProblemOrigin \subseteq probIndexOf(problemset)
            /\ DOMAIN X.perProblemStatus \subseteq probIndexOf(problemset)
            /\ X.solvedProblems \subseteq probIndexOf(problemset)
            /\ buildAllTagDifficultyBuckets(X) = buildAllTagDifficultyBuckets(Y)
            /\ windowSnapshot.problems = SnapshotOf(Handle, InCatalogSubs, problemset, now).problems
            /\ windowSnapshot.tags = SnapshotOf(Handle, InCatalogSubs, problemset, now).tags

\* C19 witness: a snapshot was built from a list holding an accepted submission
\* for a problem absent from the catalog and a submission for a catalog problem.
C19_Witness ==
    /\ lastBoot.path = "fresh"
    /\ \E i, j \in 1..Len(submissions) :
          /\ AbsentFromCatalog(submissions[i])
          /\ submissions[i].verdict = "OK"
          /\ Len(submissions[j].problem) > 0
          /\ ~AbsentFromCatalog(submissions[j])

\* nextTargetDifficulty - (maxSolved or 0), or 500 without a next target.
GapOf(t) ==
    IF t.nextTargetDifficulty # Null THEN t.nextTargetDifficulty - OrZero(t.maxSolved)
    ELSE 500

SameScoreInputs(a, b) ==
    /\ a.solvePercent = b.solvePercent
    /\ a.solved = b.solved
    /\ a.maxSolved = b.maxSolved

\* C20: after a scoring run, of two tags with equal solvePercent, solved and
\* maxSolved the one with the smaller gap has the strictly higher
\* recommendScore, a tag without a next target counting with a gap of 500 (so
\* equal gaps give equal scores); every score is a number between 0 and 1,
\* also when no tag has a solved problem or a solved rating; only the
\* recommendScore fields change, and an empty tag list stays empty.
C20_ScoreFollowsGap ==
    scoreDone =>
        \A before \in {aggregate(submissions, problemset).tagArray} :
            /\ Len(scoreTags) = Len(before)
            /\ Len(before) = 0 => scoreTags = before
            /\ \A i \in 1..Len(scoreTags) :
                  /\ [scoreTags[i] EXCEPT !.recommendScore = 0] = before[i]
                  /\ scoreTags[i].recommendScore \in 1..ScoreScale
            /\ \A i, j \in 1..Len(scoreTags) :
                  SameScoreInputs(before[i], before[j]) =>
                      /\ GapOf(before[i]) < GapOf(before[j]) =>
                            scoreTags[i].recommendScore > scoreTags[j].recommendScore
                      /\ GapOf(before[i]) = GapOf(before[j]) =>
                            scoreTags[i].recommendScore = scoreTags[j].recommendScore

\* C20 witness: a scoring run has scored two tags with equal solvePercent,
\* solved and maxSolved, one with a next target at a gap under 500 and one
\* without a next target.
C20_Witness ==
    /\ scoreDone
    /\ \E i, j \in 1..Len(scoreTags) :
          /\ SameScoreInputs(scoreTags[i], scoreTags[j])
          /\ scoreTags[i].nextTargetDifficulty # Null
          /\ GapOf(scoreTags[i]) < 500
          /\ scoreTags[j].nextTargetDifficulty = Null
          /\ scoreTags[i].recommendScore > scoreTags[j].recommendScore

\* No problem of the catalog lists a tag twice.
NoDuplicateTags(ps) ==
    \A i \in 1..Len(ps) : Cardinality(Range(ps[i].tags)) = Len(ps[i].tags)

\* C21: for a catalog whose tag lists have no duplicates and any submission
\* list, every tag statistic of aggregate() has
\* solvedContest + solvedPractice = solved and solved <= totalAvailable, also
\* when a problem carries both origin flags.
C21_OriginSplitAdditive ==
    (lastBoot.path = "fresh" /\ NoDuplicateTags(problemset)) =>
        \A agg \in {aggregate(submissions, problemset)} :
            \A i \in 1..Len(agg.tagArray) :
                /\ agg.tagArray[i].solvedContest + agg.tagArray[i].solvedPractice
                      = agg.tagArray[i].solved
                /\ agg.tagArray[i].solved <= agg.tagArray[i].totalAvailable

\* C21 witness: aggregate() ran on a catalog without duplicate tags in which a
\* problem solved both in a contest and in practice shares a tag with a
\* problem that is not solved.
C21_Witness ==
    /\ lastBoot.path = "fresh"
    /\ NoDuplicateTags(problemset)
    /\ \E k \in DualOriginKeys : \E t \in Range(MetaOf(problemset)[k].tags) :
          LET stat == StatOfTag(aggregate(submissions, problemset), t) IN
          /\ stat.solved = 1
          /\ stat.totalAvailable = 2

\* C22: at most one fetch cycle is in flight on the page. While one is in
\* flight the refresh button is not available, so is it after a cycle that
\* ended in a fetch failure. A cycle started after the page's first boot starts
\* from a rendered block with an enabled button and disables the button; the
\* button is enabled again only by the step that ends the only cycle in flight
\* and replaces the block with a newly rendered one; the cache is written only
\* by such a step, so that no other cycle is under way at a cache write.
C22_OneFetchCycleInFlight ==
    /\ [](/\ inFlight <= 1
          /\ inFlight > 0 => ~refreshEnabled
          /\ refreshEnabled => block = "rendered"
          /\ lastBoot.path = "failed" => (block = "failed" /\ ~refreshEnabled))
    /\ [][/\ (pc # "load" /\ inFlight' > inFlight) =>
                /\ inFlight = 0
                /\ block = "rendered" /\ block' = "rendered"
                /\ refreshEnabled /\ ~refreshEnabled'
          /\ (pc # "load" /\ pc' # "load" /\ ~refreshEnabled /\ refreshEnabled') =>
                /\ inFlight = 1 /\ inFlight' = 0
                /\ block' = "rendered"
                /\ lastBoot'.path = "fresh"
                /\ rendered' = renderFromSnapshot(windowSnapshot')
          /\ storage' # storage => (inFlight = 1 /\ inFlight' = 0)
         ]_vars

\* C22 witness: a refresh is in flight, its button disabled, on a block that an
\* earlier, finished refresh had rendered.
C22_Witness ==
    /\ inFlight = 1
    /\ block = "rendered"
    /\ ~refreshEnabled
    /\ lastBoot.path = "fresh"
    /\ lastBoot.forced

====
